---- MODULE Spec2Model ----
(***************************************************************************)
(* Model of the AI Judge server: the two route handlers                    *)
(*   POST /api/case   (src/src/app/api/case/route.ts)                      *)
(*   POST /api/argue  (src/src/app/api/argue/route.ts)                     *)
(* running as concurrent request handlers over one shared Prisma store.    *)
(* Every `await` on the store or on the LLM is a point where another       *)
(* handler may run, so each handler is cut into one action per await that  *)
(* touches shared state.                                                   *)
(***************************************************************************)
EXTENDS Integers, Sequences, FiniteSets, TLC

VARIABLES
    cases,       \* table Case: sequence of rows, row i has id i
    documents,   \* table Document: set of rows [caseId, side, content]
    arguments,   \* table Argument: rows in the order their inserts committed
    clock,       \* the store's clock, as last used for a createdAt default
    handler,     \* per request handler: its position and its locals
    page         \* one browser page (HomePage): its React state and its
                 \* fetches that have not returned

vars == <<cases, documents, arguments, clock, handler, page>>

----------------------------------------------------------------------------
(* Bounds of the exploration *)

MaxRequests == 2     \* requests the clients send in one run, each with its handler
MaxTies == 1         \* inserts that fall in the timestamp of the one before
MaxParagraphs == 2   \* paragraphs of an evidence text

(* Program constants *)

ArgumentCap == 5
TemplateIndent == 6  \* spaces before ${contentA} and ${contentB} in the prompt
PageArgumentCap == 5 \* the page's own count of A and B turns that locks the forms

Handlers == 1 .. MaxRequests

----------------------------------------------------------------------------
(* Inputs *)

\* What a client may put in the JSON body of /api/argue: a well-formed body
\* for a stored case or for an id of no stored case, with side A, B or a side
\* that is neither ("C"), and the bodies with one field missing or empty
\* (id 0, side "", text "").
ArgueInputs ==
    { [caseId |-> c, side |-> s, argumentText |-> "t"] :
        c \in 1 .. Len(cases) + 1, s \in {"A", "B"} }
    \cup { [caseId |-> 1, side |-> "C", argumentText |-> "t"],
           [caseId |-> 0, side |-> "A", argumentText |-> "t"],
           [caseId |-> 1, side |-> "", argumentText |-> "t"],
           [caseId |-> 1, side |-> "B", argumentText |-> ""] }

\* What a client may put in the form of /api/case: per side an optional file
\* and an optional text field.
NoFile == [size |-> 0, type |-> "", data |-> ""]
FileInputs ==
    { NoFile,
      [size |-> 1, type |-> "text/plain", data |-> "e"],
      [size |-> 1, type |-> "application/pdf", data |-> "e"] }
FormTextInputs == {"", "e"}

\* What the LLM may answer: a text, or an empty message content.
OracleAnswers == {"", "v"}

\* What a client may type as the evidence of a side: nothing, or up to
\* MaxParagraphs paragraphs of one line each, a blank line between two
\* paragraphs, a paragraph typed at the margin or indented.
ParagraphLines == { [indent |-> 0, text |-> "p"], [indent |-> TemplateIndent, text |-> "p"] }

RECURSIVE ParagraphTexts(_)
ParagraphTexts(n) ==
    IF n = 1 THEN { <<x>> : x \in ParagraphLines }
    ELSE ParagraphTexts(n - 1)
         \cup { s \o <<[indent |-> 0, text |-> ""], x>> :
                  s \in ParagraphTexts(n - 1), x \in ParagraphLines }

TextInputs == { <<[indent |-> 0, text |-> ""]>> } \cup ParagraphTexts(MaxParagraphs)

----------------------------------------------------------------------------
(* Handler locals *)

NoCase == [found |-> FALSE, verdict |-> "", documents |-> {}, arguments |-> <<>>]

Idle ==
    [ pc |-> "idle", op |-> "none",
      caseId |-> 0, side |-> "", argumentText |-> "",
      existingCase |-> NoCase, newArgument |-> 0,
      contentA |-> "", contentB |-> "", newCase |-> 0,
      oracleCalled |-> FALSE, caught |-> "", status |-> 0, body |-> "" ]

\* The state of a page on which no trial was started (page.tsx:140-144), and
\* `pending`: the requests it has sent whose fetch has not returned.
FreshPage ==
    [ caseId |-> 0, isLoading |-> FALSE, argumentHistory |-> <<>>, pending |-> {} ]

\* Handler h serves the h-th request of the run.
Arrives(h) ==
    /\ handler[h].pc = "idle"
    /\ h > 1 => handler[h - 1].pc # "idle"

----------------------------------------------------------------------------
(* JavaScript truthiness of a string: !x is true for "" (and for a missing
   field, which the inputs write as "" or, for an id, as 0) *)

Falsy(x) == x = ""

FalsyId(x) == x = 0

Or(x, dflt) == IF Falsy(x) THEN dflt ELSE x

----------------------------------------------------------------------------
(* /api/case *)

getTextFromBuffer(buffer, mimeType) ==
    IF mimeType = "text/plain" THEN buffer ELSE ""

getSideContent(file, text) ==
    IF file.size > 0 THEN getTextFromBuffer(file.data, file.type)
    ELSE IF ~Falsy(text) THEN text
    ELSE ""

\* Mutant: a document is written only for a side that gave content.
NewDocuments_OnlyNonEmpty(id, contentA, contentB) ==
    { d \in { [caseId |-> id, side |-> "A", content |-> contentA],
              [caseId |-> id, side |-> "B", content |-> contentB] } :
        d.content # "" }

NewDocuments(id, contentA, contentB) ==
    { [caseId |-> id, side |-> "A", content |-> contentA],
      [caseId |-> id, side |-> "B", content |-> contentB] }

Respond(h, st, bd) ==
    [handler EXCEPT ![h].pc = "done", ![h].status = st, ![h].body = bd]

\* The catch block: what was thrown is logged, the answer is 500.
Catch(h, error) ==
    [handler EXCEPT ![h].pc = "done", ![h].caught = error, ![h].status = 500,
                    ![h].body = "An internal server error occurred.",
                    ![h].existingCase = NoCase]

\* Mutant: the form is refused when either side is empty.
NoContent_Either(contentA, contentB) == Falsy(contentA) \/ Falsy(contentB)

NoContent(contentA, contentB) == Falsy(contentA) /\ Falsy(contentB)

\* Lines 39-51: read the form, extract both contents, reject when both empty.
CaseBegin(h, fileA, textA, fileB, textB) ==
    LET contentA == getSideContent(fileA, textA)
        contentB == getSideContent(fileB, textB)
        fresh == [Idle EXCEPT !.op = "case",
                              !.contentA = contentA, !.contentB = contentB]
    IN  /\ Arrives(h)
        /\ handler' =
             IF NoContent(contentA, contentB)
             THEN [handler EXCEPT ![h] =
                     [fresh EXCEPT !.pc = "done", !.status = 400,
                                   !.body = "No content provided for either side."]]
             ELSE [handler EXCEPT ![h] =
                     [fresh EXCEPT !.pc = "caseOracle", !.oracleCalled = TRUE]]
        /\ UNCHANGED <<cases, documents, arguments, clock>>

\* Lines 67-89: the completion returns, the case and its two documents are
\* written by one nested create, and the answer is 200.
CaseOracleOk(h, answer) ==
    LET id == Len(cases) + 1
        verdict == Or(answer, "No verdict received.")
    IN  /\ handler[h].pc = "caseOracle"
        /\ cases' = Append(cases, [id |-> id, verdict |-> verdict])
        /\ documents' = documents \cup
               NewDocuments(id, handler[h].contentA, handler[h].contentB)
        /\ handler' = [handler EXCEPT ![h].pc = "done", ![h].status = 200,
                                      ![h].newCase = id, ![h].body = verdict]
        /\ UNCHANGED <<arguments, clock>>

\* Mutant: the case row is written before the verdict is known, and stays
\* when the completion throws.
CaseOracleFail_PartialCase(h) ==
    /\ handler[h].pc = "caseOracle"
    /\ handler' = Catch(h, "oracle")
    /\ cases' = Append(cases, [id |-> Len(cases) + 1, verdict |-> ""])
    /\ UNCHANGED <<documents, arguments, clock>>

\* Lines 67-70, 90-96: the completion throws; the catch answers 500.
CaseOracleFail(h) ==
    /\ handler[h].pc = "caseOracle"
    /\ handler' = Catch(h, "oracle")
    /\ UNCHANGED <<cases, documents, arguments, clock>>

\* The prompt of the initial verdict, as the lines of the template literal.
\* A text is the sequence of its lines, a line its indentation and the rest;
\* the empty string is one empty line.
Line(indent, text) == [indent |-> indent, text |-> text]

Blank == Line(0, "")

EmptyText == <<Blank>>

\* `      ${content}`: the first line of the content continues the indented
\* line of the template, its other lines follow as they are.
Interpolate(content) ==
    [i \in 1 .. Len(content) |->
        IF i = 1
        THEN Line(content[1].indent + TemplateIndent, content[1].text)
        ELSE content[i]]

\* Lines 54-65.
Prompt(contentA, contentB) ==
    << Blank,
       Line(TemplateIndent, "You are an AI Judge for a mock trial. Analyze the evidence from Side A and Side B and provide an initial, impartial verdict."),
       Line(TemplateIndent, "Explain your reasoning clearly."),
       Blank >>
    \o Interpolate(contentA)
    \o << Blank >>
    \o Interpolate(contentB)
    \o << Blank,
          Line(TemplateIndent, "Your Verdict:"),
          Line(TemplateIndent, ""),
          Line(TemplateIndent, "Do not use any markdown formatting."),
          Line(4, "") >>

\* Lines 39-65 for a form with two text fields and no file: the contents are
\* the texts, the form with both empty is refused, otherwise the prompt is
\* built from the contents and the completion is requested.
CaseBeginTexts(h, textA, textB) ==
    LET fresh == [Idle EXCEPT !.op = "case",
                              !.contentA = textA, !.contentB = textB]
    IN  /\ Arrives(h)
        /\ handler' =
             IF textA = EmptyText /\ textB = EmptyText
             THEN [handler EXCEPT ![h] =
                     [fresh EXCEPT !.pc = "done", !.status = 400,
                                   !.body = "No content provided for either side."]]
             ELSE [handler EXCEPT ![h] =
                     [fresh EXCEPT !.pc = "caseOracle", !.oracleCalled = TRUE]]
        /\ UNCHANGED <<cases, documents, arguments, clock>>

----------------------------------------------------------------------------
(* /api/argue *)

RECURSIVE OrderByCreatedAt(_)
\* Every sequence a query with orderBy { createdAt: 'asc' } may return for a
\* set of rows: ascending in createdAt, rows with equal createdAt in any
\* order (the query names no second sort key).
OrderByCreatedAt(rows) ==
    IF rows = {} THEN {<<>>}
    ELSE UNION { { <<r>> \o s : s \in OrderByCreatedAt(rows \ {r}) } :
                 r \in {x \in rows : \A y \in rows : x.createdAt <= y.createdAt} }

ArgumentsOf(c) == {arguments[i] : i \in {j \in 1 .. Len(arguments) : arguments[j].caseId = c}}

DocumentsOf(c) == {d \in documents : d.caseId = c}

\* Mutant: a missing case is taken for a stored case with no history.
FindUnique_NullAsEmpty(c) ==
    IF c \in 1 .. Len(cases)
    THEN { [found |-> TRUE, verdict |-> cases[c].verdict,
            documents |-> DocumentsOf(c), arguments |-> s] :
           s \in OrderByCreatedAt(ArgumentsOf(c)) }
    ELSE {[NoCase EXCEPT !.found = TRUE]}

\* prisma.case.findUnique with include documents and ordered arguments.
FindUnique(c) ==
    IF c \in 1 .. Len(cases)
    THEN { [found |-> TRUE, verdict |-> cases[c].verdict,
            documents |-> DocumentsOf(c), arguments |-> s] :
           s \in OrderByCreatedAt(ArgumentsOf(c)) }
    ELSE {NoCase}

\* Mutant: the cap test off by one.
CapReached_OffByOne(n) == n > ArgumentCap

\* Mutant: the cap test refuses one argument early.
CapReached_OneEarly(n) == n >= ArgumentCap - 1

CapReached(n) == n >= ArgumentCap

MissingField(caseId, side, argumentText) ==
    FalsyId(caseId) \/ Falsy(side) \/ Falsy(argumentText)

\* Lines 22-50: parse and check the body, read the case with its history,
\* answer 404 or 403, or go on to the insert with the history just read.
ArgueBegin(h, caseId, side, argumentText) ==
    LET fresh == [Idle EXCEPT !.op = "argue", !.caseId = caseId,
                              !.side = side, !.argumentText = argumentText]
        done(st, bd) == [fresh EXCEPT !.pc = "done", !.status = st, !.body = bd]
    IN  /\ Arrives(h)
        /\ \E existingCase \in FindUnique(caseId) :
             handler' = [handler EXCEPT ![h] =
               IF MissingField(caseId, side, argumentText)
               THEN done(400, "Missing caseId, side, or argumentText")
               ELSE IF ~existingCase.found
               THEN done(404, "Case not found")
               ELSE IF CapReached(Len(existingCase.arguments))
               THEN done(403, "Maximum number of arguments (5) reached.")
               ELSE [fresh EXCEPT !.pc = "create", !.existingCase = existingCase]]
        /\ UNCHANGED <<cases, documents, arguments, clock>>

Ties ==
    Cardinality({i \in 2 .. Len(arguments) :
                    arguments[i].createdAt = arguments[i - 1].createdAt})

\* The createdAt the store may give the row handler h inserts: a later
\* timestamp than the last row's, or the same timestamp when both inserts
\* fall in one clock tick, which takes two handlers that overlap: h read the
\* case before the last row was committed.
NextCreatedAt(h) ==
    LET last == arguments[Len(arguments)]
        seen == handler[h].existingCase.arguments
    IN  {clock + 1} \cup
        (IF /\ arguments # <<>>
            /\ Ties < MaxTies
            /\ \A i \in 1 .. Len(seen) : seen[i].id # last.id
         THEN {clock} ELSE {})

ValidSide(side) == side \in {"A", "B"}

\* Mutant: a side that already has an argument in the case gets that
\* argument's content replaced instead of a new row.
ArgueCreate_Upsert(h) ==
    /\ handler[h].pc = "create"
    /\ \E t \in NextCreatedAt(h) :
         LET id == Len(arguments) + 1
             mine == {i \in 1 .. Len(arguments) :
                         /\ arguments[i].caseId = handler[h].caseId
                         /\ arguments[i].side = handler[h].side}
         IN  /\ arguments' =
                  IF mine = {}
                  THEN Append(arguments,
                         [id |-> id, caseId |-> handler[h].caseId,
                          side |-> handler[h].side,
                          content |-> handler[h].argumentText, createdAt |-> t])
                  ELSE [i \in 1 .. Len(arguments) |->
                          IF i \in mine
                          THEN [arguments[i] EXCEPT
                                  !.content = "edited", !.createdAt = t]
                          ELSE arguments[i]]
             /\ clock' = t
             /\ handler' = [handler EXCEPT ![h].pc = "oracle",
                                           ![h].newArgument = id,
                                           ![h].oracleCalled = TRUE]
    /\ UNCHANGED <<cases, documents>>

\* Mutant: a submission whose (case, side, content) is already stored is taken
\* for that stored row, and no second row is inserted.
ArgueCreate_Dedup(h) ==
    /\ handler[h].pc = "create"
    /\ \E t \in NextCreatedAt(h) :
         LET id == Len(arguments) + 1
             same == {i \in 1 .. Len(arguments) :
                         /\ arguments[i].caseId = handler[h].caseId
                         /\ arguments[i].side = handler[h].side
                         /\ arguments[i].content = handler[h].argumentText}
         IN  IF same = {}
             THEN /\ arguments' = Append(arguments,
                         [id |-> id, caseId |-> handler[h].caseId,
                          side |-> handler[h].side,
                          content |-> handler[h].argumentText, createdAt |-> t])
                  /\ clock' = t
                  /\ handler' = [handler EXCEPT ![h].pc = "oracle",
                                                ![h].newArgument = id,
                                                ![h].oracleCalled = TRUE]
             ELSE /\ UNCHANGED <<arguments, clock>>
                  /\ handler' = [handler EXCEPT
                                   ![h].pc = "oracle",
                                   ![h].newArgument = CHOOSE i \in same : TRUE,
                                   ![h].oracleCalled = TRUE]
    /\ UNCHANGED <<cases, documents>>

\* Lines 52-59: prisma.argument.create, then (lines 61-97) the messages are
\* built from the history read before the insert and the completion is
\* requested.
ArgueCreate(h) ==
    /\ handler[h].pc = "create"
    /\ \E t \in NextCreatedAt(h) :
         LET id == Len(arguments) + 1
         IN  /\ arguments' = Append(arguments,
                   [id |-> id, caseId |-> handler[h].caseId,
                    side |-> handler[h].side,
                    content |-> handler[h].argumentText, createdAt |-> t])
             /\ clock' = t
             /\ handler' = [handler EXCEPT ![h].pc = "oracle",
                                           ![h].newArgument = id,
                                           ![h].oracleCalled = TRUE]
    /\ UNCHANGED <<cases, documents>>

\* Mutant: the completion is requested before the insert, so the Oracle was
\* invoked for a turn the store then refuses.
ArgueCreateThrows_OracleFirst(h) ==
    /\ handler[h].pc = "create"
    /\ ~ValidSide(handler[h].side)
    /\ handler' = [Catch(h, "store") EXCEPT ![h].oracleCalled = TRUE]
    /\ UNCHANGED <<cases, documents, arguments, clock>>

\* Lines 53-59, 107-113: the store refuses the row (a side column that admits
\* only A and B); the catch answers 500.
ArgueCreateThrows(h) ==
    /\ handler[h].pc = "create"
    /\ ~ValidSide(handler[h].side)
    /\ handler' = Catch(h, "store")
    /\ UNCHANGED <<cases, documents, arguments, clock>>

DocContent(docs, side) ==
    IF \E d \in docs : d.side = side
    THEN Or((CHOOSE d \in docs : d.side = side).content, "N/A")
    ELSE "N/A"

\* Mutant: the new argument is put before the history.
Messages_NewTurnFirst(h) ==
    LET e == handler[h].existingCase
    IN  <<[role |-> "system",
           content |-> <<"ORIGINAL EVIDENCE & VERDICT",
                         "Side A: ", DocContent(e.documents, "A"),
                         "Side B: ", DocContent(e.documents, "B"),
                         "Your Initial Verdict: ", e.verdict,
                         "END OF CONTEXT">>]>>
        \o <<[role |-> "user",
              content |-> <<"Here is a new argument from Side ", handler[h].side,
                            handler[h].argumentText,
                            "Please provide your re-evaluation.">>]>>
        \o [i \in 1 .. Len(e.arguments) |->
              [role |-> "user",
               content |-> <<"Argument from Side ", e.arguments[i].side,
                             e.arguments[i].content>>]]

\* Lines 61-90: the message list sent with the completion request.
Messages(h) ==
    LET e == handler[h].existingCase
    IN  <<[role |-> "system",
           content |-> <<"ORIGINAL EVIDENCE & VERDICT",
                         "Side A: ", DocContent(e.documents, "A"),
                         "Side B: ", DocContent(e.documents, "B"),
                         "Your Initial Verdict: ", e.verdict,
                         "END OF CONTEXT">>]>>
        \o [i \in 1 .. Len(e.arguments) |->
              [role |-> "user",
               content |-> <<"Argument from Side ", e.arguments[i].side,
                             e.arguments[i].content>>]]
        \o <<[role |-> "user",
              content |-> <<"Here is a new argument from Side ", handler[h].side,
                            handler[h].argumentText,
                            "Please provide your re-evaluation.">>]>>

\* Mutant: the re-evaluation is written over the verdict of the case.
ArgueOracleOk_OverwritesVerdict(h, answer) ==
    /\ handler[h].pc = "oracle"
    /\ handler' = [Respond(h, 200, Or(answer, "No response received."))
                      EXCEPT ![h].existingCase = NoCase]
    /\ cases' = [cases EXCEPT ![handler[h].caseId].verdict =
                                  Or(answer, "No response received.")]
    /\ UNCHANGED <<documents, arguments, clock>>

\* Lines 94-105: the completion returns; the answer is 200 with its text.
ArgueOracleOk(h, answer) ==
    /\ handler[h].pc = "oracle"
    /\ handler' = [Respond(h, 200, Or(answer, "No response received."))
                      EXCEPT ![h].existingCase = NoCase]
    /\ UNCHANGED <<cases, documents, arguments, clock>>

\* Mutant: the failure of the completion takes the inserted row back.
ArgueOracleFail_Rollback(h) ==
    /\ handler[h].pc = "oracle"
    /\ handler' = Catch(h, "oracle")
    /\ arguments' = SelectSeq(arguments, LAMBDA r : r.id # handler[h].newArgument)
    /\ UNCHANGED <<cases, documents, clock>>

\* Lines 94-97, 107-113: the completion throws; the catch answers 500 and
\* leaves the inserted row where it is.
ArgueOracleFail(h) ==
    /\ handler[h].pc = "oracle"
    /\ handler' = Catch(h, "oracle")
    /\ UNCHANGED <<cases, documents, arguments, clock>>

----------------------------------------------------------------------------
(* The system *)

\* The store outlives the handlers: a run starts on what earlier requests
\* left in it. The runs start on an empty store, or on a store in which one
\* case was opened and k arguments were then submitted one after the other,
\* the sides alternating, each in its own clock tick (k = 0 .. ArgumentCap).
InitialArguments(k) ==
    [i \in 1 .. k |->
        [id |-> i, caseId |-> 1, side |-> IF i % 2 = 1 THEN "A" ELSE "B",
         content |-> "t", createdAt |-> i]]

Init ==
    /\ \/ /\ cases = <<>>
          /\ documents = {}
          /\ arguments = <<>>
          /\ clock = 0
       \/ \E k \in 0 .. ArgumentCap :
             /\ cases = <<[id |-> 1, verdict |-> "v"]>>
             /\ documents = NewDocuments(1, "e", "e")
             /\ arguments = InitialArguments(k)
             /\ clock = k
    /\ handler = [h \in Handlers |-> Idle]
    /\ page = FreshPage

Next ==
    \E h \in Handlers :
        \/ /\ \E fileA \in FileInputs, textA \in FormTextInputs,
                 fileB \in FileInputs, textB \in FormTextInputs :
                   CaseBegin(h, fileA, textA, fileB, textB)
           /\ UNCHANGED page
        \/ /\ \E answer \in OracleAnswers : CaseOracleOk(h, answer)
           /\ UNCHANGED page
        \/ CaseOracleFail(h) /\ UNCHANGED page
        \/ /\ \E req \in ArgueInputs :
                   ArgueBegin(h, req.caseId, req.side, req.argumentText)
           /\ UNCHANGED page
        \/ ArgueCreate(h) /\ UNCHANGED page
        \/ ArgueCreateThrows(h) /\ UNCHANGED page
        \/ /\ \E answer \in OracleAnswers : ArgueOracleOk(h, answer)
           /\ UNCHANGED page
        \/ ArgueOracleFail(h) /\ UNCHANGED page

Spec == Init /\ [][Next]_vars

\* The requests served one after the other: a caller that awaits the answer
\* to each request before it sends the next, so a handler starts only when
\* no other is between its first and its last step.
Quiet == \A g \in Handlers : handler[g].pc \in {"idle", "done"}

SequentialNext ==
    \E h \in Handlers :
        \/ /\ Quiet
           /\ \E fileA \in FileInputs, textA \in FormTextInputs,
                 fileB \in FileInputs, textB \in FormTextInputs :
                   CaseBegin(h, fileA, textA, fileB, textB)
           /\ UNCHANGED page
        \/ /\ \E answer \in OracleAnswers : CaseOracleOk(h, answer)
           /\ UNCHANGED page
        \/ CaseOracleFail(h) /\ UNCHANGED page
        \/ /\ Quiet
           /\ \E req \in ArgueInputs :
                   ArgueBegin(h, req.caseId, req.side, req.argumentText)
           /\ UNCHANGED page
        \/ ArgueCreate(h) /\ UNCHANGED page
        \/ ArgueCreateThrows(h) /\ UNCHANGED page
        \/ /\ \E answer \in OracleAnswers : ArgueOracleOk(h, answer)
           /\ UNCHANGED page
        \/ ArgueOracleFail(h) /\ UNCHANGED page

SpecSequential == Init /\ [][SequentialNext]_vars

\* The handlers under the progress the runtime and the store give them: a
\* handler that waits for the store gets its answer (the insert commits or
\* throws). Nothing makes the completion request come back: lines 94-97 of
\* /api/argue and 67-70 of /api/case await it with no timeout and no abort
\* signal, so no fairness is stated for the steps that end that await.
SpecLive ==
    /\ Init
    /\ [][Next]_vars
    /\ \A h \in Handlers :
         WF_vars((ArgueCreate(h) \/ ArgueCreateThrows(h)) /\ UNCHANGED page)

\* The requests to /api/case up to the completion request, over evidence
\* texts of several lines.
PromptNext ==
    \E h \in Handlers :
        /\ \E textA \in TextInputs, textB \in TextInputs :
              CaseBeginTexts(h, textA, textB)
        /\ UNCHANGED page

SpecPrompt == Init /\ [][PromptNext]_vars

----------------------------------------------------------------------------
(* The page (src/src/app/page.tsx) as the only client of the two routes *)

\* Lines 204-207.
isArgumentLoading ==
    \/ page.isLoading
    \/ /\ Len(page.argumentHistory) > 0
       /\ page.argumentHistory[Len(page.argumentHistory)].from # "AI"

\* Lines 209-210.
maxArgumentsReached ==
    Cardinality({ i \in 1 .. Len(page.argumentHistory) :
                    page.argumentHistory[i].from # "AI" }) >= PageArgumentCap

\* Lines 331, 340: the prop both ArgumentChat components get.
isLocked == isArgumentLoading \/ maxArgumentsReached

\* Lines 158-169: a side with both a file and a text is refused by the page.
BothGiven(file, text) == file.size > 0 /\ ~Falsy(text)

\* Lines 146-175: the form is submitted with the Start Trial button, which is
\* rendered while there is no case and nothing is loading (line 255). The
\* history is emptied, the form is checked and POSTed to /api/case; the
\* request reaches its handler in the same step.
handleInitialSubmit(h, fileA, textA, fileB, textB) ==
    /\ page.caseId = 0
    /\ ~page.isLoading
    /\ IF BothGiven(fileA, textA) \/ BothGiven(fileB, textB)
       THEN /\ page' = [page EXCEPT !.argumentHistory = <<>>, !.isLoading = FALSE]
            /\ UNCHANGED <<cases, documents, arguments, clock, handler>>
       ELSE /\ CaseBegin(h, fileA, textA, fileB, textB)
            /\ page' = [page EXCEPT !.argumentHistory = <<>>, !.isLoading = TRUE,
                                    !.pending = @ \cup {h}]

\* Lines 177-190: the fetch of /api/case returns; a 200 sets the case shown,
\* any other status sets the error; isLoading is reset in both.
handleInitialResponse(h) ==
    /\ h \in page.pending
    /\ handler[h].op = "case"
    /\ handler[h].pc = "done"
    /\ page' = [page EXCEPT
                  !.caseId = IF handler[h].status = 200
                             THEN handler[h].newCase ELSE @,
                  !.isLoading = FALSE,
                  !.pending = @ \ {h}]
    /\ UNCHANGED <<cases, documents, arguments, clock, handler>>

\* Lines 36-51: the form of the ArgumentChat of `side` is submitted: nothing
\* happens when it is locked or its text is blank, otherwise the text is
\* POSTed to /api/argue for the case shown. The chats are rendered when there
\* is a case (line 316).
handleSubmit(h, side, argumentText) ==
    /\ page.caseId # 0
    /\ ~isLocked
    /\ ~Falsy(argumentText)
    /\ ArgueBegin(h, page.caseId, side, argumentText)
    /\ page' = [page EXCEPT !.pending = @ \cup {h}]

\* Lines 193-202.
onNewArgument(userTurn, aiTurn) ==
    page.argumentHistory \o <<userTurn, aiTurn>>

\* Mutant: the turn of a failed submission is kept in the history.
handleSubmitResponse_KeepsFailedTurn(h) ==
    /\ h \in page.pending
    /\ handler[h].op = "argue"
    /\ handler[h].pc = "done"
    /\ page' = [page EXCEPT
                  !.argumentHistory =
                      IF handler[h].status = 200
                      THEN onNewArgument(
                             [from |-> handler[h].side, text |-> handler[h].argumentText],
                             [from |-> "AI", text |-> handler[h].body])
                      ELSE @ \o <<[from |-> handler[h].side,
                                   text |-> handler[h].argumentText]>>,
                  !.pending = @ \ {h}]
    /\ UNCHANGED <<cases, documents, arguments, clock, handler>>

\* Lines 53-74: the fetch of /api/argue returns; a 200 appends the turn
\* (from: the side the route echoes as argumentFrom, text: the text sent)
\* and the re-evaluation to the history, any other status sets the error of
\* the chat and leaves the history as it is.
handleSubmitResponse(h) ==
    /\ h \in page.pending
    /\ handler[h].op = "argue"
    /\ handler[h].pc = "done"
    /\ page' = [page EXCEPT
                  !.argumentHistory =
                      IF handler[h].status = 200
                      THEN onNewArgument(
                             [from |-> handler[h].side, text |-> handler[h].argumentText],
                             [from |-> "AI", text |-> handler[h].body])
                      ELSE @,
                  !.pending = @ \ {h}]
    /\ UNCHANGED <<cases, documents, arguments, clock, handler>>

\* The history of a page on which k arguments were submitted one after the
\* other and answered: the turns of InitialArguments(k), each followed by its
\* re-evaluation.
InitialHistory(k) ==
    [i \in 1 .. 2 * k |->
        IF i % 2 = 1
        THEN [from |-> InitialArguments(k)[(i + 1) \div 2].side,
              text |-> InitialArguments(k)[(i + 1) \div 2].content]
        ELSE [from |-> "AI", text |-> "v"]]

\* The page is opened on an empty store, or is showing the one case of the
\* store after k arguments submitted from it (k = 0 .. ArgumentCap).
PageInit ==
    /\ \/ /\ cases = <<>>
          /\ documents = {}
          /\ arguments = <<>>
          /\ clock = 0
          /\ page = FreshPage
       \/ \E k \in 0 .. ArgumentCap :
             /\ cases = <<[id |-> 1, verdict |-> "v"]>>
             /\ documents = NewDocuments(1, "e", "e")
             /\ arguments = InitialArguments(k)
             /\ clock = k
             /\ page = [FreshPage EXCEPT !.caseId = 1,
                                         !.argumentHistory = InitialHistory(k)]
    /\ handler = [h \in Handlers |-> Idle]

\* The page and the handlers of its requests. No request of the page has a
\* side other than A or B, so the store refuses none of its inserts.
PageNext ==
    \E h \in Handlers :
        \/ \E fileA \in FileInputs, textA \in FormTextInputs,
              fileB \in FileInputs, textB \in FormTextInputs :
                handleInitialSubmit(h, fileA, textA, fileB, textB)
        \/ handleInitialResponse(h)
        \/ \E side \in {"A", "B"} : handleSubmit(h, side, "t")
        \/ handleSubmitResponse(h)
        \/ /\ \E answer \in OracleAnswers : CaseOracleOk(h, answer)
           /\ UNCHANGED page
        \/ CaseOracleFail(h) /\ UNCHANGED page
        \/ ArgueCreate(h) /\ UNCHANGED page
        \/ /\ \E answer \in OracleAnswers : ArgueOracleOk(h, answer)
           /\ UNCHANGED page
        \/ ArgueOracleFail(h) /\ UNCHANGED page

SpecPage == PageInit /\ [][PageNext]_vars

----------------------------------------------------------------------------
(* Vocabulary of the properties *)

CaseIds == 1 .. Len(cases)

\* The turns of case c in the order their inserts committed.
TurnsOf(c) == SelectSeq(arguments, LAMBDA r : r.caseId = c)

Argue(h) == handler[h].op = "argue"

Finished(h) == handler[h].pc = "done"

\* A request that is a SubmitTurn call the specification accepts: a stored
\* case, side A or B, non-empty content.
WellFormed(h) ==
    /\ Argue(h)
    /\ handler[h].caseId \in CaseIds
    /\ ValidSide(handler[h].side)
    /\ handler[h].argumentText # ""

InFlight(c) ==
    \E h \in Handlers :
        Argue(h) /\ handler[h].caseId = c /\ handler[h].pc \in {"create", "oracle"}

OnlyValidTurns(c) ==
    \A i \in 1 .. Len(TurnsOf(c)) :
        ValidSide(TurnsOf(c)[i].side) /\ TurnsOf(c)[i].content # ""

----------------------------------------------------------------------------
(* C1: for every case, in every reachable state, the number of stored turns
   is between 0 and 5, whatever the interleaving of the handlers of
   submissions from sides A and B. *)
C1_TurnCountWithinCap ==
    \A c \in CaseIds :
        OnlyValidTurns(c) => Len(TurnsOf(c)) <= ArgumentCap

(* C2: once N >= 5 valid submissions to a case that started with no turns
   have all answered, exactly 5 of them have appended a turn (so the case
   holds exactly 5) and every one that appended nothing was answered 403. *)
C2_ExactlyCapAppended ==
    \A c \in CaseIds :
        (OnlyValidTurns(c) /\ ~InFlight(c) /\ Len(TurnsOf(c)) >= ArgumentCap)
        => /\ Len(TurnsOf(c)) = ArgumentCap
           /\ \A h \in Handlers :
                (WellFormed(h) /\ Finished(h) /\ handler[h].caseId = c
                    /\ handler[h].newArgument = 0)
                => handler[h].status = 403

(* C3: a submission that passes the body check and arrives when its case
   already holds 5 turns (or more) is answered 403 in that same step, with
   no completion requested, no row inserted and the Argument table
   unchanged; a handler that answered 403 holds no row and never asked the
   LLM. *)
C3_Step ==
    \A h \in Handlers :
        ( /\ handler[h].pc = "idle"
          /\ handler'[h].pc # "idle"
          /\ handler'[h].op = "argue"
          /\ ~MissingField(handler'[h].caseId, handler'[h].side,
                           handler'[h].argumentText)
          /\ handler'[h].caseId \in CaseIds
          /\ Len(TurnsOf(handler'[h].caseId)) >= ArgumentCap )
        => /\ handler'[h].pc = "done"
           /\ handler'[h].status = 403
           /\ ~handler'[h].oracleCalled
           /\ handler'[h].newArgument = 0
           /\ arguments' = arguments

C3_Rejected ==
    \A h \in Handlers :
        (Argue(h) /\ handler[h].status = 403)
        => /\ Finished(h)
           /\ ~handler[h].oracleCalled
           /\ handler[h].newArgument = 0

C3_CapRejectsWithoutEffect == [][C3_Step]_vars /\ []C3_Rejected

C3_Witness ==
    \E h \in Handlers :
        /\ WellFormed(h)
        /\ Finished(h)
        /\ handler[h].status = 403
        /\ Len(TurnsOf(handler[h].caseId)) = ArgumentCap

(* C4: when the completion of a submission throws after the row was
   inserted, that step leaves the Argument table as it is and answers 500,
   not 200; the insert before it added exactly one row; and from then on
   every read of the case returns that row, once, with the submitted side
   and content. *)
OracleFailed(h) == Argue(h) /\ Finished(h) /\ handler[h].caught = "oracle"

C4_Step ==
    \A h \in Handlers :
        /\ (handler[h].pc = "create" /\ handler'[h].pc = "oracle")
           => /\ Len(arguments') = Len(arguments) + 1
              /\ arguments'[Len(arguments')].id = handler'[h].newArgument
        /\ (handler[h].pc = "oracle" /\ handler'[h].caught = "oracle")
           => /\ arguments' = arguments
              /\ handler'[h].status = 500

C4_State ==
    \A h \in Handlers :
        OracleFailed(h)
        => /\ handler[h].status = 500
           /\ handler[h].newArgument # 0
           /\ \A e \in FindUnique(handler[h].caseId) :
                Cardinality({ i \in 1 .. Len(e.arguments) :
                    /\ e.arguments[i].id = handler[h].newArgument
                    /\ e.arguments[i].side = handler[h].side
                    /\ e.arguments[i].content = handler[h].argumentText }) = 1

C4_TurnSurvivesOracleFailure == [][C4_Step]_vars /\ []C4_State

C4_Witness ==
    \E h \in Handlers :
        /\ OracleFailed(h)
        /\ handler[h].status = 500
        /\ \E i \in 1 .. Len(arguments) : arguments[i].id = handler[h].newArgument

(* C5: in every reachable state each stored case has a verdict and exactly
   its two documents, one per side, and every document belongs to a stored
   case; a step in which the completion of /api/case throws writes nothing,
   and every step that changes the Case or Document table adds one whole
   case for a handler that answers 200. *)
WholeCase(c) ==
    /\ cases[c].id = c
    /\ cases[c].verdict # ""
    /\ Cardinality(DocumentsOf(c)) = 2
    /\ {d.side : d \in DocumentsOf(c)} = {"A", "B"}

C5_State ==
    /\ \A c \in CaseIds : WholeCase(c)
    /\ \A d \in documents : d.caseId \in CaseIds
    /\ \A h \in Handlers :
         (handler[h].op = "case" /\ handler[h].caught = "oracle")
         => handler[h].status = 500 /\ handler[h].newCase = 0

C5_Step ==
    /\ \A h \in Handlers :
         (handler[h].pc = "caseOracle" /\ handler'[h].caught = "oracle")
         => cases' = cases /\ documents' = documents
    /\ (cases' # cases \/ documents' # documents)
       => /\ Len(cases') = Len(cases) + 1
          /\ \E h \in Handlers :
               /\ handler[h].pc = "caseOracle"
               /\ handler'[h].status = 200
               /\ handler'[h].newCase = Len(cases')

C5_NoPartialCase == [][C5_Step]_vars /\ []C5_State

C5_Witness ==
    \E h \in Handlers :
        /\ handler[h].op = "case"
        /\ handler[h].caught = "oracle"
        /\ cases = <<>>
        /\ documents = {}

(* C6: while a submission waits for its completion, the prior turns in the
   messages it sent are exactly the turns stored before its own row, in
   stored order, and the last message is its own turn. *)
TurnsBefore(c, id) == SelectSeq(TurnsOf(c), LAMBDA r : r.id < id)

Labels(turns) == [i \in 1 .. Len(turns) |-> <<turns[i].side, turns[i].content>>]

PriorSent(h) ==
    [i \in 1 .. Len(Messages(h)) - 2 |->
        <<Messages(h)[i + 1].content[2], Messages(h)[i + 1].content[3]>>]

NewSent(h) ==
    <<Messages(h)[Len(Messages(h))].content[2], Messages(h)[Len(Messages(h))].content[3]>>

C6_ContextIsStoredPrefix ==
    \A h \in Handlers :
        (WellFormed(h) /\ handler[h].pc = "oracle")
        => /\ PriorSent(h) = Labels(TurnsBefore(handler[h].caseId, handler[h].newArgument))
           /\ NewSent(h) = <<handler[h].side, handler[h].argumentText>>

(* C7: within each case the turns carry positions 1..n that increase
   strictly in stored order: the i-th stored turn is the i-th under the key
   the turns are ordered by. *)
Position(c, r) == Cardinality({x \in ArgumentsOf(c) : x.createdAt <= r.createdAt})

C7_PositionsStrictAndGapFree ==
    \A c \in CaseIds :
        \A i \in 1 .. Len(TurnsOf(c)) : Position(c, TurnsOf(c)[i]) = i

(* C8: every read of a case returns its turns in the order their inserts
   committed, so any two reads agree on the order of the turns they share. *)
C8_ReadOrderIsCommitOrder ==
    \A c \in CaseIds :
        \A e \in FindUnique(c) : e.arguments = TurnsOf(c)

(* C9: a submission whose content is empty or whose side is not A or B is
   answered 400 and inserts nothing (left aside the submissions answered 404
   or 403, for an unknown or a full case); every stored turn has side A or B
   and non-empty content. *)
C9_ValidationRejects ==
    /\ \A h \in Handlers :
         (Argue(h) /\ Finished(h) /\ handler[h].status \notin {403, 404}
            /\ (handler[h].argumentText = "" \/ ~ValidSide(handler[h].side)))
         => handler[h].status = 400 /\ handler[h].newArgument = 0
    /\ \A i \in 1 .. Len(arguments) :
         ValidSide(arguments[i].side) /\ arguments[i].content # ""

(* C10: a /api/case request whose two contents are both empty is answered
   400 with no completion requested and nothing written; a request with a
   non-empty side is not answered 400, requests its completion, and when it
   is answered 200 its step added exactly one case, holding its contents. *)
BothEmpty(h) == handler[h].contentA = "" /\ handler[h].contentB = ""

C10_State ==
    \A h \in Handlers :
        handler[h].op = "case"
        => /\ BothEmpty(h)
              => /\ Finished(h)
                 /\ handler[h].status = 400
                 /\ ~handler[h].oracleCalled
                 /\ handler[h].newCase = 0
           /\ ~BothEmpty(h)
              => /\ handler[h].status # 400
                 /\ handler[h].oracleCalled
                 /\ handler[h].status = 200
                    => /\ handler[h].newCase \in CaseIds
                       /\ DocumentsOf(handler[h].newCase) =
                            { [caseId |-> handler[h].newCase, side |-> "A",
                               content |-> handler[h].contentA],
                              [caseId |-> handler[h].newCase, side |-> "B",
                               content |-> handler[h].contentB] }

C10_Step ==
    \A h \in Handlers :
        /\ (handler[h].pc = "idle" /\ handler'[h].op = "case"
              /\ handler'[h].status = 400)
           => cases' = cases /\ documents' = documents /\ arguments' = arguments
        /\ (handler[h].pc = "caseOracle" /\ handler'[h].status = 200)
           => Len(cases') = Len(cases) + 1

C10_EmptyFormRefused == [][C10_Step]_vars /\ []C10_State

C10_Witness ==
    \E h, g \in Handlers :
        /\ handler[h].op = "case" /\ BothEmpty(h) /\ handler[h].status = 400
        /\ handler[g].op = "case" /\ handler[g].status = 200
        /\ handler[g].contentA = "" /\ handler[g].contentB # ""
        /\ handler[g].newCase \in CaseIds

(* C11: a submission that passes the body check and names an id of no
   stored case is answered 404 in that same step, which requests no
   completion and leaves all three tables as they are; a handler that
   answered 404 inserted no row and never asked the LLM. *)
C11_Step ==
    \A h \in Handlers :
        ( /\ handler[h].pc = "idle"
          /\ handler'[h].pc # "idle"
          /\ handler'[h].op = "argue"
          /\ ~MissingField(handler'[h].caseId, handler'[h].side,
                           handler'[h].argumentText)
          /\ handler'[h].caseId \notin CaseIds )
        => /\ handler'[h].pc = "done"
           /\ handler'[h].status = 404
           /\ handler'[h].body = "Case not found"
           /\ ~handler'[h].oracleCalled
           /\ handler'[h].newArgument = 0
           /\ arguments' = arguments
           /\ cases' = cases
           /\ documents' = documents

C11_NotFound ==
    /\ \A h \in Handlers :
         (Argue(h) /\ handler[h].status = 404)
         => /\ Finished(h)
            /\ ~handler[h].oracleCalled
            /\ handler[h].newArgument = 0
    /\ \A i \in 1 .. Len(arguments) : arguments[i].caseId \in CaseIds

C11_UnknownCaseRejectedWithoutEffect == [][C11_Step]_vars /\ []C11_NotFound

C11_Witness ==
    \E h \in Handlers :
        /\ Argue(h)
        /\ Finished(h)
        /\ handler[h].status = 404
        /\ handler[h].caseId \notin CaseIds
        /\ cases # <<>>
        /\ arguments # <<>>

(* C12: in every step and for every stored case, the number of stored turns
   stays or grows by one, an insert grows it by exactly one, and a case that
   holds 5 turns (Concluded) keeps its turns, its verdict and its documents
   as they are. *)
C12_StateOnlyMovesForward ==
    [][ \A c \in CaseIds :
          OnlyValidTurns(c)'
          => /\ Len(TurnsOf(c)') \in {Len(TurnsOf(c)), Len(TurnsOf(c)) + 1}
             /\ \A h \in Handlers :
                  ( /\ handler[h].pc = "create"
                    /\ handler'[h].pc = "oracle"
                    /\ handler[h].caseId = c )
                  => Len(TurnsOf(c)') = Len(TurnsOf(c)) + 1
             /\ Len(TurnsOf(c)) >= ArgumentCap
                => /\ TurnsOf(c)' = TurnsOf(c)
                   /\ cases'[c] = cases[c]
                   /\ DocumentsOf(c)' = DocumentsOf(c) ]_vars

(* C13: when the requests are served one after the other, a well-formed
   submission to a case holding n turns goes on to its insert when n < 5 and
   is answered 403 when n = 5; its insert leaves the case with n + 1 turns,
   at most 5; the completion that returns answers 200 and stores nothing
   more. So from a fresh case the k-th call (k = 1..5) leaves k turns and
   the sixth is answered 403, and no call answered 403 found fewer than 5
   turns. *)
C13_Step ==
    \A h \in Handlers :
        LET c == handler'[h].caseId
            d == handler[h].caseId
        IN  /\ ( /\ handler[h].pc = "idle"
                 /\ handler'[h].pc # "idle"
                 /\ WellFormed(h)' )
               => /\ Len(TurnsOf(c)) < ArgumentCap
                     => handler'[h].pc = "create" /\ handler'[h].status = 0
                  /\ Len(TurnsOf(c)) >= ArgumentCap
                     => handler'[h].pc = "done" /\ handler'[h].status = 403
            /\ (handler[h].pc = "create" /\ handler'[h].pc = "oracle")
               => /\ Len(TurnsOf(d)') = Len(TurnsOf(d)) + 1
                  /\ Len(TurnsOf(d)') = Len(handler[h].existingCase.arguments) + 1
                  /\ Len(TurnsOf(d)') <= ArgumentCap
                  /\ TurnsOf(d)'[Len(TurnsOf(d)')].id = handler'[h].newArgument
            /\ ( /\ handler[h].pc = "oracle"
                 /\ handler'[h].pc = "done"
                 /\ handler'[h].caught = "" )
               => handler'[h].status = 200 /\ arguments' = arguments

C13_State ==
    /\ \A c \in CaseIds : Len(TurnsOf(c)) <= ArgumentCap
    /\ \A h \in Handlers :
         (WellFormed(h) /\ Finished(h))
         => /\ handler[h].status = 403
               => Len(TurnsOf(handler[h].caseId)) = ArgumentCap
            /\ (handler[h].newArgument # 0 /\ handler[h].caught = "")
               => handler[h].status = 200

C13_SequentialCallsFillTheCap == [][C13_Step]_vars /\ []C13_State

C13_Witness ==
    \E h, g \in Handlers :
        /\ WellFormed(h) /\ WellFormed(g)
        /\ handler[h].caseId = handler[g].caseId
        /\ handler[h].status = 200
        /\ Len(TurnsOf(handler[h].caseId)) = ArgumentCap
        /\ TurnsOf(handler[h].caseId)[ArgumentCap].id = handler[h].newArgument
        /\ handler[g].status = 403
        /\ handler[g].newArgument = 0

(* C14: the verdict of a case is written in the step that adds the case,
   as the text answered to that request, and no step changes the verdict of a
   stored case: not the insert of an argument, not the answer to a
   re-evaluation. Case rows are never removed. *)
C14_Step ==
    /\ Len(cases') >= Len(cases)
    /\ \A c \in CaseIds : cases'[c] = cases[c]
    /\ \A c \in (1 .. Len(cases')) \ CaseIds :
         /\ cases'[c].verdict # ""
         /\ \E h \in Handlers :
              /\ handler[h].pc = "caseOracle"
              /\ handler'[h].newCase = c
              /\ handler'[h].body = cases'[c].verdict
    /\ \A h \in Handlers :
         (Argue(h) /\ handler[h].pc # handler'[h].pc) => cases' = cases

C14_VerdictWrittenOnce == [][C14_Step]_vars

C14_Witness ==
    \E g, h \in Handlers :
        /\ handler[g].op = "case"
        /\ handler[g].status = 200
        /\ handler[g].newCase \in CaseIds
        /\ WellFormed(h)
        /\ handler[h].caseId = handler[g].newCase
        /\ handler[h].status = 200
        /\ handler[h].newArgument # 0
        /\ cases[handler[g].newCase].verdict = handler[g].body
        /\ handler[h].body # handler[g].body

(* C15: every stored case has exactly two documents, one of side A and one
   of side B; the step that adds a case row adds its two documents, holding
   the contents of the request, and no other step touches the Document
   table, so the documents of a stored case stay as written. *)
C15_TwoDocuments ==
    \A c \in CaseIds :
        \E a, b \in DocumentsOf(c) :
            /\ a.side = "A"
            /\ b.side = "B"
            /\ DocumentsOf(c) = {a, b}

C15_Step ==
    /\ \A c \in CaseIds : DocumentsOf(c)' = DocumentsOf(c)
    /\ \A d \in documents : d \in documents'
    /\ \A c \in (1 .. Len(cases')) \ CaseIds :
         \E h \in Handlers :
            /\ handler[h].pc = "caseOracle"
            /\ handler'[h].newCase = c
            /\ DocumentsOf(c)' =
                 { [caseId |-> c, side |-> "A", content |-> handler[h].contentA],
                   [caseId |-> c, side |-> "B", content |-> handler[h].contentB] }
    /\ cases' = cases => documents' = documents

C15_EvidenceWrittenWithCase == [][C15_Step]_vars /\ []C15_TwoDocuments

C15_Witness ==
    \E g, h \in Handlers :
        /\ handler[g].op = "case"
        /\ handler[g].status = 200
        /\ handler[g].contentA = ""
        /\ handler[g].contentB # ""
        /\ DocumentsOf(handler[g].newCase) =
             { [caseId |-> handler[g].newCase, side |-> "A", content |-> ""],
               [caseId |-> handler[g].newCase, side |-> "B",
                content |-> handler[g].contentB] }
        /\ Argue(h)
        /\ handler[h].caseId = handler[g].newCase
        /\ handler[h].newArgument # 0
        /\ Finished(h)

(* C16: no step changes or removes a stored argument: the Argument table
   before a step is a prefix of the table after it, row for row (id, case,
   side, content, createdAt), so the turns of a case before the step are a
   prefix of its turns after it, and a row that is added carries a
   createdAt not below that of any stored row. *)
IsPrefix(s, t) ==
    /\ Len(s) <= Len(t)
    /\ \A i \in 1 .. Len(s) : t[i] = s[i]

C16_TurnLogAppendOnly ==
    [][ /\ IsPrefix(arguments, arguments')
        /\ \A c \in CaseIds : IsPrefix(TurnsOf(c), TurnsOf(c)')
        /\ \A i \in Len(arguments) + 1 .. Len(arguments') :
             \A j \in 1 .. Len(arguments) :
                arguments[j].createdAt <= arguments'[i].createdAt ]_vars

C16_Witness ==
    \E g, h \in Handlers :
        /\ g # h
        /\ Argue(g) /\ Argue(h)
        /\ handler[g].caseId = handler[h].caseId
        /\ handler[g].side = handler[h].side
        /\ handler[g].newArgument # 0
        /\ handler[h].newArgument > handler[g].newArgument
        /\ Finished(g) /\ Finished(h)
        /\ \E i, j \in 1 .. Len(arguments) :
             /\ i < j
             /\ arguments[i].id = handler[g].newArgument
             /\ arguments[j].id = handler[h].newArgument
             /\ arguments[i].content = handler[g].argumentText

(* C17: the messages a submission sends with its completion request are, in
   this order: one system message holding the stored evidence of side A,
   then that of side B ("N/A" for an empty one), then the stored verdict of
   the case; one message per turn the handler read, in the order read
   (ascending createdAt, each a stored turn of the case older than its own),
   labelled with the turn's side; and last its own turn as stored, labelled
   with its side and followed by the request to re-evaluate. *)
Evidence(c, side) ==
    LET d == CHOOSE x \in DocumentsOf(c) : x.side = side
    IN  IF d.content = "" THEN "N/A" ELSE d.content

StoredArgument(id) == arguments[CHOOSE i \in 1 .. Len(arguments) : arguments[i].id = id]

C17_SegmentOrder ==
    \A h \in Handlers :
        (Argue(h) /\ handler[h].pc = "oracle")
        => LET c == handler[h].caseId
               m == Messages(h)
               read == handler[h].existingCase.arguments
               own == StoredArgument(handler[h].newArgument)
           IN  /\ Len(m) = Len(read) + 2
               /\ m[1] = [role |-> "system",
                          content |-> <<"ORIGINAL EVIDENCE & VERDICT",
                                        "Side A: ", Evidence(c, "A"),
                                        "Side B: ", Evidence(c, "B"),
                                        "Your Initial Verdict: ", cases[c].verdict,
                                        "END OF CONTEXT">>]
               /\ \A i \in 1 .. Len(read) :
                    /\ read[i] \in ArgumentsOf(c)
                    /\ read[i].id < own.id
                    /\ m[i + 1] = [role |-> "user",
                                   content |-> <<"Argument from Side ",
                                                 read[i].side, read[i].content>>]
               /\ \A i, j \in 1 .. Len(read) :
                    i < j => /\ read[i].id # read[j].id
                             /\ read[i].createdAt <= read[j].createdAt
               /\ m[Len(m)] = [role |-> "user",
                               content |-> <<"Here is a new argument from Side ",
                                             own.side, own.content,
                                             "Please provide your re-evaluation.">>]

C17_Witness ==
    \E h \in Handlers :
        /\ WellFormed(h)
        /\ handler[h].pc = "oracle"
        /\ Len(Messages(h)) >= 4
        /\ Messages(h)[2].content[2] = "A"
        /\ Messages(h)[3].content[2] = "B"
        /\ Messages(h)[Len(Messages(h))].content[2] = handler[h].side

(* C19: the prompt of the initial verdict tells the evidence of side A
   from the evidence of side B: two requests whose prompts are the same text
   were given the same evidence for A and the same evidence for B. *)
C19_EvidenceDelimited ==
    \A g, h \in Handlers :
        ( /\ handler[g].pc = "caseOracle"
          /\ handler[h].pc = "caseOracle"
          /\ Prompt(handler[g].contentA, handler[g].contentB)
               = Prompt(handler[h].contentA, handler[h].contentB) )
        => /\ handler[g].contentA = handler[h].contentA
           /\ handler[g].contentB = handler[h].contentB

(* C20: every answered request carries one of the statuses 200, 400, 404,
   403, 500, each failure its own: 400 only for a request that fails
   validation (a missing or empty field, a side that is not A or B, a form
   with both sides empty), 404 and 403 only for a submission that stored
   nothing, 500 exactly for a completion that threw; and 200 only for a
   request that passes validation, threw nothing and stored its row. (The
   requests whose insert the store refused are left aside.) *)
ValidationFailed(h) ==
    \/ /\ Argue(h)
       /\ \/ MissingField(handler[h].caseId, handler[h].side, handler[h].argumentText)
          \/ ~ValidSide(handler[h].side)
    \/ handler[h].op = "case" /\ BothEmpty(h)

C20_FailuresIdentified ==
    \A h \in Handlers :
        (Finished(h) /\ handler[h].caught # "store")
        => /\ handler[h].status \in {200, 400, 403, 404, 500}
           /\ handler[h].status = 400
              => ValidationFailed(h) /\ ~handler[h].oracleCalled
           /\ handler[h].status \in {403, 404}
              => Argue(h) /\ handler[h].newArgument = 0
           /\ handler[h].status = 500 <=> handler[h].caught = "oracle"
           /\ handler[h].status = 200
              => /\ ~ValidationFailed(h)
                 /\ handler[h].caught = ""
                 /\ Argue(h) => handler[h].newArgument # 0
                 /\ handler[h].op = "case" => handler[h].newCase # 0

(* C21: every handler that has requested its completion returns an answer to
   its caller, whatever the LLM does: waiting for the completion leads to
   the handler being done. *)
C21_OracleCallBounded ==
    \A h \in Handlers :
        (handler[h].pc \in {"oracle", "caseOracle"}) ~> (handler[h].pc = "done")

(* C22: the turns of A and B in the page's history appear in the order in
   which they are stored for the case shown: the sequence of (side, text) of
   the history's party turns is a subsequence of the sequence of (side,
   content) of the stored turns. *)
RECURSIVE IsSubsequence(_, _)
IsSubsequence(s, t) ==
    IF s = <<>> THEN TRUE
    ELSE IF t = <<>> THEN FALSE
    ELSE IF Head(s) = Head(t) THEN IsSubsequence(Tail(s), Tail(t))
    ELSE IsSubsequence(s, Tail(t))

Observed ==
    LET party == SelectSeq(page.argumentHistory, LAMBDA t : t.from # "AI")
    IN  [i \in 1 .. Len(party) |-> <<party[i].from, party[i].text>>]

Persisted == Labels(TurnsOf(page.caseId))

C22_ObservedOrderIsStoredOrder ==
    page.caseId # 0 => IsSubsequence(Observed, Persisted)

(* C23: when the case shown holds 5 stored arguments or more and no request
   of the page is awaiting its response, the forms of both sides are locked
   and the message of the maximum is shown. *)
C23_LockedAtFiveStored ==
    ( /\ page.caseId # 0
      /\ page.pending = {}
      /\ Len(TurnsOf(page.caseId)) >= ArgumentCap )
    => isLocked /\ maxArgumentsReached

(* C24: a submission with the case, the side and the content of an earlier
   one whose Oracle call failed is not recognised as a repetition: while the
   case is under the cap it is accepted, its insert appends a second row, and
   the failed attempt and the retry together take two slots of the case. *)
FailedAttempt(g) ==
    /\ Argue(g)
    /\ Finished(g)
    /\ handler[g].caught = "oracle"
    /\ handler[g].newArgument # 0

SameSubmission(g, h) ==
    /\ handler[g].caseId = handler[h].caseId
    /\ handler[g].side = handler[h].side
    /\ handler[g].argumentText = handler[h].argumentText

C24_Step(g, h) ==
    LET c == handler[g].caseId
        retried == /\ FailedAttempt(g)
                   /\ handler'[h].op = "argue"
                   /\ handler'[h].caseId = c
                   /\ handler'[h].side = handler[g].side
                   /\ handler'[h].argumentText = handler[g].argumentText
    IN  /\ ( /\ retried
             /\ handler[h].pc = "idle"
             /\ handler'[h].pc # "idle"
             /\ Len(TurnsOf(c)) < ArgumentCap )
           => handler'[h].pc = "create"
        /\ ( /\ retried
             /\ handler[h].pc = "create"
             /\ handler'[h].pc = "oracle" )
           => /\ Len(arguments') = Len(arguments) + 1
              /\ handler'[h].newArgument = Len(arguments')
              /\ handler'[h].newArgument # handler[g].newArgument
              /\ arguments'[handler'[h].newArgument].content
                   = arguments'[handler[g].newArgument].content
              /\ arguments'[handler'[h].newArgument].side
                   = arguments'[handler[g].newArgument].side
              /\ Len(SelectSeq(arguments', LAMBDA r : r.caseId = c))
                   = Len(TurnsOf(c)) + 1

C24_RetryAppendsSecondTurn ==
    [][\A g, h \in Handlers : g # h => C24_Step(g, h)]_vars

\* The retry of a failed attempt has inserted its row.
C24_Witness ==
    \E g, h \in Handlers :
        /\ g # h
        /\ FailedAttempt(g)
        /\ Argue(h)
        /\ SameSubmission(g, h)
        /\ handler[h].newArgument # 0
        /\ handler[h].newArgument # handler[g].newArgument
        /\ Len(TurnsOf(handler[g].caseId)) >= 2

(* C25: the Oracle is invoked for a re-adjudication only after the turn of
   the request is stored: every submission that invoked the Oracle has a row
   of its own in its case, a submission answered 400, 404 or 403 or refused by
   the store invoked no Oracle, and so for every case the invocations number
   at most the stored turns. *)
Invoked(h) == Argue(h) /\ handler[h].oracleCalled

Invocations(c) == {h \in Handlers : Invoked(h) /\ handler[h].caseId = c}

C25_OracleOnlyAfterInsert ==
    /\ \A h \in Handlers :
         /\ Invoked(h) =>
              /\ handler[h].newArgument \in 1 .. Len(arguments)
              /\ arguments[handler[h].newArgument].caseId = handler[h].caseId
              /\ \A g \in Handlers :
                   (g # h /\ Invoked(g))
                   => handler[g].newArgument # handler[h].newArgument
         /\ ( /\ Argue(h)
              /\ Finished(h)
              /\ \/ handler[h].status \in {400, 403, 404}
                 \/ handler[h].caught = "store" )
            => ~handler[h].oracleCalled /\ handler[h].newArgument = 0
    /\ \A c \in 0 .. Len(cases) + 1 :
         Cardinality(Invocations(c)) <= Len(TurnsOf(c))

\* One submission was refused at the cap without an invocation, while another
\* for the same case invoked the Oracle with its turn stored.
C25_Witness ==
    \E g, h \in Handlers :
        /\ Invoked(g)
        /\ Argue(h)
        /\ handler[h].caseId = handler[g].caseId
        /\ handler[h].status = 403
        /\ ~handler[h].oracleCalled
        /\ Cardinality(Invocations(handler[g].caseId)) = 1
        /\ Len(TurnsOf(handler[g].caseId)) = ArgumentCap

(* C26: while a submission of the page awaits its response the forms of both
   sides are locked, and so at most one submission of the page is awaiting a
   response at any time. *)
AwaitingArgue == {h \in page.pending : Argue(h)}

C26_LockedWhileAwaiting ==
    /\ AwaitingArgue # {} => isLocked
    /\ Cardinality(AwaitingArgue) <= 1

(* C27: the history of the page always has an even length and alternates a
   turn of a party (A or B) with a turn of the AI, so that whenever it is not
   empty its last entry is from the AI; this holds after answered and failed
   submissions and after the start of a trial. *)
C27_HistoryAlternates ==
    LET history == page.argumentHistory
    IN  /\ Len(history) % 2 = 0
        /\ \A i \in 1 .. Len(history) :
             IF i % 2 = 1
             THEN history[i].from \in {"A", "B"}
             ELSE history[i].from = "AI"
        /\ history # <<>> => history[Len(history)].from = "AI"

\* The page has taken the response of an answered submission and of a failed
\* one, and its history holds the answered one.
C27_Witness ==
    \E g, h \in Handlers :
        /\ Argue(g) /\ Finished(g) /\ g \notin page.pending
        /\ Argue(h) /\ Finished(h) /\ h \notin page.pending
        /\ handler[g].status = 200
        /\ handler[h].status # 200
        /\ Len(page.argumentHistory) >= 2
        /\ page.argumentHistory[Len(page.argumentHistory) - 1].from
             = handler[g].side

\* A trial started from the page has its first submission answered.
C27_WitnessNewTrial ==
    \E g, h \in Handlers :
        /\ handler[g].op = "case" /\ handler[g].status = 200
        /\ page.caseId = handler[g].newCase
        /\ Argue(h) /\ handler[h].status = 200 /\ h \notin page.pending
        /\ Len(page.argumentHistory) = 2

====
